---------------------------- MODULE Spec2Model ----------------------------
(***************************************************************************)
(* EcomScrape: the crawl-and-extract pipeline.                             *)
(*                                                                         *)
(*   config.py  load_config           raw mapping -> ScraperConfig         *)
(*   cli.py     _build_url_plan,      the URL planner (static list,        *)
(*              _generate_format_urls, templated range, link discovery)    *)
(*              _discover_link_pagination                                  *)
(*   fetch.py   Fetcher.fetch / fetch_all / summary                        *)
(*   cli.py     run                   the orchestrator                     *)
(*                                                                         *)
(* Python values are modelled as follows.  An Optional value is a sequence *)
(* of length at most one: None is <<>>, a present value x is <<x>>.  A URL *)
(* is a pair <<host, last path segment>>; an href is a relative reference  *)
(* (a path segment), and urljoin replaces the last segment of its base.    *)
(* A URL template is a sequence of tokens, "{}" being the placeholder.     *)
(* A response body is a record: text is "" for an empty body, next is the  *)
(* node next_selector selects (its href, "" when the node has none) and n  *)
(* the number of nodes product_container selects.                          *)
(***************************************************************************)
EXTENDS Integers, Sequences, FiniteSets, TLC

\* ------------------------------------------------------------- bounds

\* start_urls holds at most this many URLs
MaxStartUrls == 2
\* a page holds at most this many product containers
MaxContainers == 2
\* the product caps (config max_products, --max-products) range over 1..MaxCap
MaxCap == 2
\* request.max_workers ranges over 1..MaxWorkers
MaxWorkers == 2
\* pagination.max_pages ranges over 0..MaxPagesCfg (and the default)
MaxPagesCfg == 2
\* pagination.start and pagination.end range over -1..MaxIdx
MaxIdx == 1
\* the harness of SpecFetcher issues at most this many fetch requests
MaxCalls == 3
\* request.max_retries ranges over 0..MaxRetries
MaxRetries == 2
\* the harness of SpecRetry calls fetch at most this many times
MaxGets == 2

\* ------------------------------------------------------ Python values

None == <<>>

Some(x) == <<x>>

\* Python truthiness of an Optional[int]: None and 0 are falsy
TruthyInt(o) == o # None /\ o[1] # 0

\* Python `a or b` on an Optional[int] a and an int b
OrInt(o, d) == IF TruthyInt(o) THEN o[1] ELSE d

\* Python truthiness of an Optional[str]: None and "" are falsy
TruthyStr(o) == o # None /\ o[1] # ""

\* Python truthiness of an Optional[list]: None and the empty list are falsy
TruthyList(o) == o # None /\ o[1] # <<>>

Range(s) == {s[i] : i \in DOMAIN s}

\* s[:k] for 0 <= k
Prefix(s, k) == SubSeq(s, 1, IF k < Len(s) THEN k ELSE Len(s))

\* ------------------------------------------------------------- the web

Segments == {"1", "2", "3"}

StartUrlPool == {<<"a", "1">>, <<"a", "2">>}

\* response.text of a 2xx response with an empty body
EmptyBody == [text |-> "", next |-> None, n |-> 0]

\* a document: what the selectors of the config see in it
Doc(next, n) == [text |-> "doc", next |-> next, n |-> n]

\* documents of a site without next links
PlainDocs == {Doc(None, n) : n \in 0..MaxContainers}

\* documents of a paginated site: the next node is missing, has no href, or
\* links to a sibling page
Hrefs == {None, Some("")} \cup {Some(s) : s \in Segments}

\* what session.get can do: raise a transport exception, or return a response
\* (for a status of retry_status_forcelist: the last one, the retries exhausted)
StatusOk == 200

Raised(e) == [exc |-> Some(e), status |-> 0, text |-> EmptyBody]

Response(s, b) == [exc |-> None, status |-> s, text |-> b]

\* a site that fails (a transport exception, an error status), answers with an
\* empty body, or serves the documents D
FlakySite(D) ==
    {Raised("ConnectionError"), Response(503, EmptyBody), Response(StatusOk, EmptyBody)}
        \cup {Response(StatusOk, d) : d \in D}

\* a site that always serves one of the documents D
SteadySite(D) == {Response(StatusOk, d) : d \in D}

\* urllib.parse.urljoin(base, href) for a relative reference without slashes
urljoin(base, href) == <<base[1], href>>

\* str.format(i) on a template: every placeholder becomes the decimal of i
Format(tpl, i) == [k \in DOMAIN tpl |-> IF tpl[k] = "{}" THEN ToString(i) ELSE tpl[k]]

\* ---------------------------------------------------------- config.py

RequiredKeys ==
    {"site_name", "start_urls", "parsing", "parsing.product_container", "parsing.fields"}

DefaultMaxPages == 20

DefaultStart == 1

DefaultMaxWorkers == 1

\* the pagination section of the raw mapping; every key may be missing
RawPagination(mode, sel, mp, tpl, st, en) ==
    [mode |-> mode, next_selector |-> sel, max_pages |-> mp, url_template |-> tpl,
     start |-> st, end |-> en]

\* PaginationConfig(...) as load_config builds it from the raw section
PaginationConfig(p) ==
    [mode |-> p.mode,
     next_selector |-> p.next_selector,
     max_pages |-> IF p.max_pages = None THEN DefaultMaxPages ELSE p.max_pages[1],
     url_template |-> p.url_template,
     start |-> IF p.start = None THEN DefaultStart ELSE p.start[1],
     end |-> IF p.end # None THEN p.end[1]
             ELSE IF p.start = None THEN DefaultStart ELSE p.start[1]]

\* load_config, had it not required the parsing section and its keys
ConfigProblemNoParsing(raw) ==
    IF "site_name" \notin raw.present THEN Some("site_name")
    ELSE IF "start_urls" \notin raw.present THEN Some("start_urls")
    ELSE IF raw.start_urls = <<>> THEN Some("start_urls must be a non-empty list")
    ELSE None

\* the first failing check of load_config, None when the raw mapping is valid
ConfigProblem(raw) ==
    IF "site_name" \notin raw.present THEN Some("site_name")
    ELSE IF "start_urls" \notin raw.present THEN Some("start_urls")
    ELSE IF raw.start_urls = <<>> THEN Some("start_urls must be a non-empty list")
    ELSE IF "parsing" \notin raw.present THEN Some("parsing")
    ELSE IF "parsing.product_container" \notin raw.present
        THEN Some("parsing.product_container")
    ELSE IF "parsing.fields" \notin raw.present THEN Some("parsing.fields")
    ELSE None

\* the ScraperConfig load_config returns for a valid raw mapping
ScraperConfig(raw) ==
    [start_urls |-> raw.start_urls,
     max_workers |-> raw.max_workers,
     pagination |-> IF raw.pagination = None THEN None
                    ELSE Some(PaginationConfig(raw.pagination[1])),
     max_products |-> raw.max_products]

\* -------------------------------------------------------------- state

VARIABLES
    raw,            \* the parsed config file (a mapping), as load_config reads it
    args,           \* the command line: dry_run, max_products
    site,           \* what the site under scrape can answer a request with
    pc,             \* the position of the main thread
    config,         \* Optional[ScraperConfig]: set by load_config
    error,          \* Optional[str]: the ConfigError raised, if any
    disc,           \* the locals of _build_url_plan and _discover_link_pagination
    urls_to_fetch,  \* run: the plan
    html_cache,     \* run: url -> html, from link discovery
    seq_i,          \* run: the position of `for url in urls_to_fetch`
    pages,          \* run: the (url, html) pairs to parse
    parse_i,        \* run: the position of `for idx, (url, html) in enumerate(pages)`
    raw_records,    \* run: the accumulated raw records
    products,       \* run: Optional: what clean_products returned
    sink,           \* what export_dataframe and write_latest_json were handed
    records,        \* Fetcher.records
    failed_urls,    \* Fetcher.failed_urls
    frames,         \* per thread: the activation of Fetcher.fetch running on it
    calls,          \* history: the URLs fetch was called with, in call order
    fa,             \* the activation of Fetcher.fetch_all: url_list, futures, results
    settings,       \* RequestSettings: max_retries, retry_status_forcelist
    adapter,        \* the Retry of the session.get in progress, and its attempts
    cleaner         \* a caller of clean_products: its batches and what it got back

vars ==
    <<raw, args, site, pc, config, error, disc, urls_to_fetch, html_cache, seq_i,
      pages, parse_i, raw_records, products, sink, records, failed_urls, frames, calls,
      fa, settings, adapter, cleaner>>

runVars ==
    <<disc, urls_to_fetch, html_cache, seq_i, pages, parse_i, raw_records, products, sink>>

inputVars == <<raw, args, site>>

retryVars == <<settings, adapter>>

\* thread 0 is the main thread, 1..MaxWorkers are the pool's workers
MainThread == 0

Threads == 0..MaxWorkers

\* ----------------------------------------------------------- fetch.py

FetchRecord(url, html, status_code, err) ==
    [url |-> url, html |-> html, status_code |-> status_code, error |-> err]

IdleFrame ==
    [pc |-> "idle", url |-> <<>>, html |-> None, status |-> None, error |-> None,
     exc |-> None]

\* the frame of fetch(url) at entry
EntryFrame(url) == [IdleFrame EXCEPT !.pc = "get", !.url = url]

\* fetch, lines 58-63: the try block on the outcome o of session.get.  status is
\* assigned before raise_for_status raises for a status of 400 and above; exc
\* holds the exception raised, None when the block completes.
TryBlock(f, o) ==
    IF o.exc # None
        THEN [f EXCEPT !.exc = o.exc]
    ELSE IF o.status >= 400
        THEN [f EXCEPT !.status = Some(o.status), !.exc = Some("HTTPError")]
    ELSE [f EXCEPT !.html = Some(o.text), !.status = Some(o.status), !.error = None]

\* the except block, had it left status as the try block set it
ExceptBlockKeepsStatus(f) == [f EXCEPT !.html = None, !.error = f.exc, !.exc = None]

\* fetch, lines 64-67: the locals after the except block
ExceptBlock(f) ==
    [f EXCEPT !.html = None, !.status = None, !.error = f.exc, !.exc = None]

\* fetch, lines 58-67: the locals after the try statement
TryExcept(f, o) ==
    LET g == TryBlock(f, o)
    IN  [(IF g.exc # None THEN ExceptBlock(g) ELSE g) EXCEPT !.pc = "append"]

\* failed_urls, had it been kept free of duplicates
AppendFailedOnce(log, f, o) ==
    IF TryBlock(f, o).exc # None /\ f.url \notin Range(log) THEN Append(log, f.url) ELSE log

\* fetch, line 68: an exception adds the URL to failed_urls
AppendFailed(log, f, o) == IF TryBlock(f, o).exc # None THEN Append(log, f.url) ELSE log

\* fetch, lines 75-76
AppendRecord(log, f) == Append(log, FetchRecord(f.url, f.html, f.status, f.error))

\* the record fetch returns
Returned(f) == FetchRecord(f.url, f.html, f.status, f.error)

\* a caller on thread t enters fetch(url)
FetchCall(t, url) ==
    /\ frames[t].pc = "idle"
    /\ frames' = [frames EXCEPT ![t] = EntryFrame(url)]
    /\ calls' = Append(calls, url)

\* the caller on the main thread takes the returned record
FetchReturn(t) ==
    /\ frames[t].pc = "ret"
    /\ frames' = [frames EXCEPT ![t] = IdleFrame]

\* ThreadPoolExecutor: the future of the task running on worker w completes with
\* the record rec
Complete(f, w, rec) ==
    [f EXCEPT !.fut = [i \in DOMAIN f.fut |->
        IF f.fut[i].state = "running" /\ f.fut[i].worker = w
            THEN [f.fut[i] EXCEPT !.state = "done", !.rec = Some(rec)]
            ELSE f.fut[i]]]

\* fetch, lines 55-69: the request and what the try statement makes of it
FetchGet(t) ==
    /\ frames[t].pc = "get"
    /\ \E o \in site :
        /\ frames' = [frames EXCEPT ![t] = TryExcept(frames[t], o)]
        /\ failed_urls' = AppendFailed(failed_urls, frames[t], o)
    /\ UNCHANGED <<inputVars, retryVars, cleaner, pc, config, error, runVars, records,
                   fa, calls>>

\* fetch, lines 71-77: the delay, the record, records.append and the return; on
\* a worker of the pool the return completes the worker's future
FetchAppend(t) ==
    /\ frames[t].pc = "append"
    /\ records' = AppendRecord(records, frames[t])
    /\ IF t = MainThread
        THEN /\ frames' = [frames EXCEPT ![t].pc = "ret"]
             /\ UNCHANGED fa
        ELSE /\ frames' = [frames EXCEPT ![t] = IdleFrame]
             /\ fa' = Complete(fa, t, Returned(frames[t]))
    /\ UNCHANGED <<inputVars, retryVars, cleaner, pc, config, error, runVars,
                   failed_urls, calls>>

\* summary()
Successes == Cardinality({i \in DOMAIN records : records[i].html # None})

Failures == Len(failed_urls)

summary == [successes |-> Successes, failures |-> Failures]

\* ---- the retries of the session (Fetcher.__init__, lines 33-42)
\*
\* session.get runs under urllib3's Retry as __init__ configures it: every
\* session.get starts with total = max_retries retries left; a failed attempt
\* (a transport error, or a response whose status is in status_forcelist)
\* takes one from total and is retried unless that exhausts the Retry; once
\* exhausted a transport error is raised and, raise_on_status being False, a
\* response is returned as it is.

DefaultMaxRetries == 3

\* RequestSettings.retry_status_forcelist when the config gives none
DefaultRetryStatusForcelist == {429, 500, 502, 503, 504}

\* the list Fetcher.__init__ falls back to (line 37)
FallbackStatusForcelist == {500, 502, 503, 504}

\* the part of RequestSettings the retries read, with its defaults; the list
\* is modelled as the set of its members
DefaultSettings ==
    [max_retries |-> DefaultMaxRetries, retry_status_forcelist |-> DefaultRetryStatusForcelist]

\* line 37: `self.settings.retry_status_forcelist or [500, 502, 503, 504]`; an
\* empty list is falsy
StatusForcelist(st) ==
    IF st.retry_status_forcelist = {} THEN FallbackStatusForcelist
    ELSE st.retry_status_forcelist

\* the Retry, had it been given one retry more than max_retries
NewRetryOneMore(st) == [total |-> st.max_retries + 1, attempts |-> 0, seen |-> <<>>]

\* line 35: Retry(total=self.settings.max_retries, ...), as session.get starts
\* with it; attempts and seen are history: the attempts made by this
\* session.get and the status each was answered with (0: a transport error)
NewRetry(st) == [total |-> st.max_retries, attempts |-> 0, seen |-> <<>>]

\* no session.get has been made
NoRetry == [total |-> 0, attempts |-> 0, seen |-> <<>>]

\* whether the outcome o of an attempt of a GET calls for a retry: a transport
\* error, or a status of status_forcelist (line 37)
Retryable(st, o) == o.exc # None \/ o.status \in StatusForcelist(st)

\* Retry.increment
Increment(r) == [r EXCEPT !.total = @ - 1]

\* Retry.is_exhausted
IsExhausted(r) == r.total < 0

\* the Retry after an attempt answered with o
Attempted(r, o) == [r EXCEPT !.attempts = @ + 1, !.seen = Append(@, o.status)]

\* fetch, lines 59-69, one attempt of session.get at a time: the attempt is
\* retried, or it ends session.get with a response or an exception, which the
\* try statement handles
FetchSend(t) ==
    /\ frames[t].pc = "get"
    /\ \E o \in site :
        IF Retryable(settings, o) /\ ~IsExhausted(Increment(adapter))
            THEN /\ adapter' = Increment(Attempted(adapter, o))
                 /\ UNCHANGED <<frames, failed_urls>>
            ELSE /\ adapter' = Attempted(adapter, o)
                 /\ frames' = [frames EXCEPT ![t] = TryExcept(frames[t], o)]
                 /\ failed_urls' = AppendFailed(failed_urls, frames[t], o)
    /\ UNCHANGED <<inputVars, settings, cleaner, pc, config, error, runVars, records,
                   fa, calls>>

\* ---- fetch_all

\* mark is history: the length of Fetcher.records when fetch_all was entered
NoFetchAll == [mode |-> "off", url_list |-> <<>>, fut |-> <<>>, results |-> <<>>, mark |-> 0]

PendingFuture == [state |-> "pending", worker |-> 0, rec |-> None, exc |-> None]

\* fetch_all at entry: sequential for max_workers <= 1, else every URL submitted
FetchAllEntry(urls, max_workers) ==
    [mode |-> IF max_workers <= 1 THEN "seq" ELSE "pool",
     url_list |-> urls,
     fut |-> [i \in DOMAIN urls |-> PendingFuture],
     results |-> <<>>,
     mark |-> Len(records)]

\* the gathering, had it kept the successful records only
GatherSuccesses(results, f) ==
    IF f.exc # None \/ f.rec[1].html = None THEN results ELSE Append(results, f.rec[1])

\* the gathering, had it kept the result of the latest future only
GatherLatest(results, f) == IF f.exc # None THEN results ELSE <<f.rec[1]>>

\* fetch_all, lines 93-97: the result of a completed future joins the results,
\* unless the future raised
Gather(results, f) == IF f.exc # None THEN results ELSE Append(results, f.rec[1])

\* fetch_all has nothing left to do and returns fa.results
FetchAllDone ==
    /\ fa.mode \in {"seq", "pool"}
    /\ \A i \in DOMAIN fa.fut : fa.fut[i].state = "gathered"

\* fetch_all, lines 83-84: the sequential loop calls fetch
FetchAllSeqCall ==
    /\ fa.mode = "seq"
    /\ \E i \in DOMAIN fa.url_list :
        /\ fa.fut[i].state = "pending"
        /\ \A j \in 1..(i - 1) : fa.fut[j].state = "gathered"
        /\ FetchCall(MainThread, fa.url_list[i])
        /\ fa' = [fa EXCEPT !.fut[i].state = "running"]
    /\ UNCHANGED <<inputVars, retryVars, cleaner, pc, config, error, runVars, records,
                   failed_urls>>

\* fetch_all, line 84: results.append(self.fetch(url))
FetchAllSeqRet ==
    /\ fa.mode = "seq"
    /\ FetchReturn(MainThread)
    /\ \E i \in DOMAIN fa.url_list :
        /\ fa.fut[i].state = "running"
        /\ fa' = [fa EXCEPT !.fut[i].state = "gathered",
                            !.results = Append(@, Returned(frames[MainThread]))]
    /\ UNCHANGED <<inputVars, retryVars, cleaner, pc, config, error, runVars, records,
                   failed_urls, calls>>

\* ThreadPoolExecutor: an idle worker takes the oldest submitted task (the workers
\* are interchangeable: the idle worker of the lowest number stands for any)
WorkerTake(w) ==
    /\ fa.mode = "pool"
    /\ w \in 1..config[1].max_workers
    /\ \A v \in 1..(w - 1) : frames[v].pc # "idle"
    /\ \E i \in DOMAIN fa.url_list :
        /\ fa.fut[i].state = "pending"
        /\ \A j \in 1..(i - 1) : fa.fut[j].state # "pending"
        /\ FetchCall(w, fa.url_list[i])
        /\ fa' = [fa EXCEPT !.fut[i].state = "running", !.fut[i].worker = w]
    /\ UNCHANGED <<inputVars, retryVars, cleaner, pc, config, error, runVars, records,
                   failed_urls>>

\* fetch_all, lines 92-94: as_completed yields a completed future, in any order
FetchAllGather ==
    /\ fa.mode = "pool"
    /\ \E i \in DOMAIN fa.url_list :
        /\ fa.fut[i].state = "done"
        /\ fa' = [fa EXCEPT !.fut[i].state = "gathered",
                            !.results = Gather(@, fa.fut[i])]
    /\ UNCHANGED <<inputVars, retryVars, cleaner, pc, config, error, runVars, records,
                   failed_urls, frames, calls>>

\* ---- a client of one Fetcher: any sequence of fetch and fetch_all calls

UrlLists(maxlen) == UNION {[1..k -> StartUrlPool] : k \in 0..maxlen}

\* the fetch requests issued so far
Issued == Len(records) + Cardinality({t \in Threads : frames[t].pc # "idle"})

HarnessFetch ==
    /\ pc = "harness"
    /\ Issued < MaxCalls
    /\ \E u \in StartUrlPool : FetchCall(MainThread, u)
    /\ pc' = "harness_fetch"
    /\ UNCHANGED <<inputVars, retryVars, cleaner, config, error, runVars, records,
                   failed_urls, fa>>

HarnessFetchRet ==
    /\ pc = "harness_fetch"
    /\ FetchReturn(MainThread)
    /\ pc' = "harness"
    /\ UNCHANGED <<inputVars, retryVars, cleaner, config, error, runVars, records,
                   failed_urls, fa, calls>>

HarnessFetchAll ==
    /\ pc = "harness"
    /\ \E urls \in UrlLists(MaxStartUrls) :
        /\ Issued + Len(urls) <= MaxCalls
        /\ fa' = FetchAllEntry(urls, config[1].max_workers)
    /\ pc' = "harness_fetch_all"
    /\ UNCHANGED <<inputVars, retryVars, cleaner, config, error, runVars, records,
                   failed_urls, frames, calls>>

HarnessFetchAllRet ==
    /\ pc = "harness_fetch_all"
    /\ FetchAllDone
    /\ fa' = [fa EXCEPT !.mode = "returned"]
    /\ pc' = "harness"
    /\ UNCHANGED <<inputVars, retryVars, cleaner, config, error, runVars, records,
                   failed_urls, frames, calls>>

\* a dict is a function; these are {}, d[k] = v, d.update(e) and d.get(k)
EmptyDict == [k \in {} |-> None]

DictSet(d, k, v) == [x \in DOMAIN d \cup {k} |-> IF x = k THEN v ELSE d[x]]

DictUpdate(d, e) == [x \in DOMAIN d \cup DOMAIN e |-> IF x \in DOMAIN e THEN e[x] ELSE d[x]]

DictGet(d, k) == IF k \in DOMAIN d THEN Some(d[k]) ELSE None

\* the locals of _build_url_plan and _discover_link_pagination before planning
NoDiscovery ==
    [i |-> 0, urls |-> <<>>, cache |-> EmptyDict, current_url |-> <<>>, pages |-> 0,
     fetches |-> 0, all_urls |-> <<>>]

\* the state of the run's variables before run is entered
RunIdle ==
    /\ disc = NoDiscovery
    /\ urls_to_fetch = <<>>
    /\ html_cache = EmptyDict
    /\ seq_i = 0
    /\ pages = <<>>
    /\ parse_i = 0
    /\ raw_records = <<>>
    /\ products = None
    /\ sink = <<>>

FetcherIdle ==
    /\ records = <<>>
    /\ failed_urls = <<>>
    /\ frames = [t \in Threads |-> IdleFrame]
    /\ calls = <<>>
    /\ fa = NoFetchAll

DefaultRaw(workers) ==
    [present |-> RequiredKeys, start_urls |-> <<>>, pagination |-> None,
     max_products |-> None, max_workers |-> workers]

\* no batch has been handed to clean_products
NoCleaner == [pc |-> "off", cleaning |-> <<>>, batches |-> <<>>, out |-> <<>>]

\* a Fetcher built from the request settings st with w workers, facing a site
\* of the outcomes s, its client, and a caller c of clean_products
InitHarness(w, s, st, c) ==
    /\ raw = DefaultRaw(w)
    /\ config = Some(ScraperConfig(DefaultRaw(w)))
    /\ args = [dry_run |-> FALSE, max_products |-> None]
    /\ site = s
    /\ pc = "harness"
    /\ error = None
    /\ RunIdle
    /\ FetcherIdle
    /\ settings = st
    /\ adapter = NoRetry
    /\ cleaner = c

\* a Fetcher with w workers and the default request settings
InitClient(w, s) == InitHarness(w, s, DefaultSettings, NoCleaner)

\* every way a request can end: the transport fails, the server answers with an
\* error status (one that is not retried, one whose retries are exhausted), or
\* with a success status and a body, the empty one included
AnySite ==
    {Raised(e) : e \in {"ConnectionError", "Timeout"}}
        \cup {Response(st, EmptyBody) : st \in {404, 503}}
        \cup {Response(StatusOk, b) : b \in {EmptyBody, Doc(None, 0)}}

\* calls of fetch, one after the other, every outcome possible
InitFetch == InitClient(DefaultMaxWorkers, AnySite)

\* calls of fetch and fetch_all on a Fetcher of any number of workers
InitFetcher ==
    \E w \in 1..MaxWorkers :
        InitClient(w, {Raised("ConnectionError"), Response(503, EmptyBody),
                       Response(StatusOk, Doc(None, 0))})

FetchStep == \E t \in Threads : FetchGet(t) \/ FetchAppend(t)

PoolStep == (\E w \in 1..MaxWorkers : WorkerTake(w)) \/ FetchAllGather

NextFetcher ==
    \/ HarnessFetch
    \/ HarnessFetchRet
    \/ HarnessFetchAll
    \/ HarnessFetchAllRet
    \/ FetchAllSeqCall
    \/ FetchAllSeqRet
    \/ FetchStep
    \/ PoolStep

SpecFetcher == InitFetcher /\ [][NextFetcher]_vars

NextFetch ==
    \/ HarnessFetch
    \/ HarnessFetchRet
    \/ FetchGet(MainThread)
    \/ FetchAppend(MainThread)

SpecFetch == InitFetch /\ [][NextFetch]_vars

\* ---- a client of fetch whose session.get is followed attempt by attempt

\* a Fetcher under every max_retries and retry_status_forcelist of the config
\* (the empty list, lists of error statuses, a list holding a success status),
\* facing a server that answers every attempt alike or one that answers in any
\* way
InitRetry ==
    LET attempts == {Raised("ConnectionError"), Response(StatusOk, Doc(None, 0)),
                     Response(404, EmptyBody), Response(503, EmptyBody)}
    IN  \E mr \in 0..MaxRetries, fl \in {{}, {503}, {404, 503}, {StatusOk, 503}},
           s \in {{o} : o \in attempts} \cup {attempts} :
            InitHarness(DefaultMaxWorkers, s,
                        [max_retries |-> mr, retry_status_forcelist |-> fl], NoCleaner)

\* a caller of fetch: session.get starts with the Retry of __init__
RetryFetch ==
    /\ pc = "harness"
    /\ Len(calls) < MaxGets
    /\ \E u \in {<<"a", "1">>} : FetchCall(MainThread, u)
    /\ adapter' = NewRetry(settings)
    /\ pc' = "harness_fetch"
    /\ UNCHANGED <<inputVars, settings, cleaner, config, error, runVars, records,
                   failed_urls, fa>>

NextRetry ==
    \/ RetryFetch
    \/ HarnessFetchRet
    \/ FetchSend(MainThread)
    \/ FetchAppend(MainThread)

SpecRetry == InitRetry /\ [][NextRetry]_vars

\* ------------------------------------------------------------- cli.py

\* Python truthiness of record.html: None and "" are falsy
TruthyHtml(h) == h # None /\ h[1].text # ""

\* _generate_format_urls, lines 67-71, for a pagination with a url_template
GenerateFormatUrls(p) ==
    LET start == OrInt(Some(p.start), 1)
        end == OrInt(Some(p.end), start)
    IN  [k \in 1..(end - start + 1) |-> Format(p.url_template[1], start + k - 1)]

\* the planner, had it tested the pagination section and not its mode
PlanBranchSectionOnly(cfg) ==
    IF cfg.pagination = None THEN "static"
    ELSE IF cfg.pagination[1].mode = Some("format")
        THEN IF TruthyList(cfg.pagination[1].url_template) THEN "format"
             ELSE "pagination.url_template is required when pagination.mode == 'format'"
    ELSE IF cfg.pagination[1].mode = Some("link") THEN "link"
    ELSE "Unsupported pagination mode"

\* _build_url_plan: which branch it takes
PlanBranch(cfg) ==
    IF cfg.pagination = None \/ ~TruthyStr(cfg.pagination[1].mode) THEN "static"
    ELSE IF cfg.pagination[1].mode[1] = "format"
        THEN IF TruthyList(cfg.pagination[1].url_template) THEN "format"
             ELSE "pagination.url_template is required when pagination.mode == 'format'"
    ELSE IF cfg.pagination[1].mode[1] = "link" THEN "link"
    ELSE "Unsupported pagination mode"

\* _discover_link_pagination, line 84
EffectiveMaxPages(p) == OrInt(Some(p.max_pages), 1)

\* the next URL to visit, had the loop not looked for it among the visited ones
NextUrlNoGuard(p, current_url, html, urls) ==
    LET next_node == IF TruthyStr(p.next_selector) THEN html.next ELSE None
    IN  IF next_node = None THEN None
        ELSE IF ~TruthyStr(next_node) THEN None
        ELSE Some(urljoin(current_url, next_node[1]))

\* _discover_link_pagination, lines 96-106, on a fetched page: the next URL to
\* visit, None when the loop breaks
NextUrl(p, current_url, html, urls) ==
    LET next_node == IF TruthyStr(p.next_selector) THEN html.next ELSE None
    IN  IF next_node = None THEN None
        ELSE IF ~TruthyStr(next_node) THEN None
        ELSE IF urljoin(current_url, next_node[1]) \in Range(urls) THEN None
        ELSE Some(urljoin(current_url, next_node[1]))

\* the planner, had it dropped what a discovery cached
MergeCacheDropped(cache, found) == cache

\* _build_url_plan, line 129
MergeCache(cache, found) == DictUpdate(cache, found)

\* run, lines 162-167: the choice of the concurrent branch
Concurrent(cfg, cache, dry_run, urls) ==
    /\ cfg.max_workers > 1
    /\ DOMAIN cache = {}
    /\ ~dry_run
    /\ Len(urls) > 1

\* run, line 169
PagesOf(results) ==
    LET ok == SelectSeq(results, LAMBDA rec : TruthyHtml(rec.html))
    IN  [i \in DOMAIN ok |-> [url |-> ok[i].url, html |-> ok[i].html[1]]]

\* run, lines 175-176
AddPage(ps, url, html) ==
    IF TruthyHtml(html) THEN Append(ps, [url |-> url, html |-> html[1]]) ELSE ps

\* Parser.parse: one raw record per product container, each carrying source_url
Parse(html, source_url) == [j \in 1..html.n |-> [source_url |-> source_url, item |-> j]]

\* run, lines 188-193: the caps on the accumulated records; brk is the break
ApplyCaps(rs, cfg_cap, cli_cap) ==
    IF TruthyInt(cfg_cap) /\ Len(rs) >= cfg_cap[1]
        THEN [records |-> Prefix(rs, cfg_cap[1]), brk |-> TRUE]
    ELSE IF TruthyInt(cli_cap) /\ Len(rs) >= cli_cap[1]
        THEN [records |-> Prefix(rs, cli_cap[1]), brk |-> TRUE]
    ELSE [records |-> rs, brk |-> FALSE]

\* clean_products: one Product per raw record, in order, one timestamp per batch
CleanProducts(rs) ==
    [i \in DOMAIN rs |->
        [source_url |-> rs[i].source_url, item |-> rs[i].item, scraped_at |-> "now"]]

\* run, lines 144-148
LoadConfig ==
    /\ pc = "start"
    /\ IF ConfigProblem(raw) # None
        THEN /\ error' = ConfigProblem(raw)
             /\ pc' = "exit_1"
             /\ UNCHANGED config
        ELSE /\ config' = Some(ScraperConfig(raw))
             /\ pc' = "plan"
             /\ UNCHANGED error
    /\ UNCHANGED <<inputVars, retryVars, cleaner, runVars, records, failed_urls,
                   frames, fa, calls>>

\* run, line 154: _build_url_plan up to its first return, raise or discovery
BuildUrlPlan ==
    /\ pc = "plan"
    /\ LET cfg == config[1]
           branch == PlanBranch(cfg)
       IN  IF branch = "static"
               THEN /\ urls_to_fetch' = cfg.start_urls
                    /\ pc' = "dispatch"
                    /\ UNCHANGED <<error, disc>>
           ELSE IF branch = "format"
               THEN /\ urls_to_fetch' = GenerateFormatUrls(cfg.pagination[1])
                    /\ pc' = "dispatch"
                    /\ UNCHANGED <<error, disc>>
           ELSE IF branch = "link"
               THEN /\ disc' = [NoDiscovery EXCEPT !.i = 1]
                    /\ pc' = "discover"
                    /\ UNCHANGED <<error, urls_to_fetch>>
           ELSE /\ error' = Some(branch)
                /\ pc' = "raised"
                /\ UNCHANGED <<disc, urls_to_fetch>>
    /\ UNCHANGED <<inputVars, retryVars, cleaner, config, html_cache, seq_i, pages,
                   parse_i, raw_records, products, sink, records, failed_urls, frames, fa,
                   calls>>

\* _build_url_plan, lines 126-130: the next start URL, or the return
DiscoverNext ==
    /\ pc = "discover"
    /\ IF disc.i <= Len(config[1].start_urls)
        THEN /\ disc' = [disc EXCEPT !.urls = <<>>, !.cache = EmptyDict, !.pages = 0,
                                     !.fetches = 0,
                                     !.current_url = config[1].start_urls[disc.i]]
             /\ pc' = "discover_while"
             /\ UNCHANGED urls_to_fetch
        ELSE /\ urls_to_fetch' = disc.all_urls
             /\ pc' = "dispatch"
             /\ UNCHANGED disc
    /\ UNCHANGED <<inputVars, retryVars, cleaner, config, error, html_cache, seq_i,
                   pages, parse_i, raw_records, products, sink, records, failed_urls,
                   frames, fa, calls>>

\* _discover_link_pagination, lines 86-87: the loop test and the fetch
DiscoverWhile ==
    /\ pc = "discover_while"
    /\ IF disc.current_url # <<>> /\ disc.pages < EffectiveMaxPages(config[1].pagination[1])
        THEN /\ FetchCall(MainThread, disc.current_url)
             /\ disc' = [disc EXCEPT !.fetches = @ + 1]
             /\ pc' = "discover_fetch"
        ELSE /\ pc' = "discover_return"
             /\ UNCHANGED <<disc, frames, calls>>
    /\ UNCHANGED <<inputVars, retryVars, cleaner, config, error, urls_to_fetch,
                   html_cache, seq_i, pages, parse_i, raw_records, products, sink, records,
                   failed_urls, fa>>

\* _discover_link_pagination, lines 88-106: the loop body after the fetch
DiscoverPage ==
    /\ pc = "discover_fetch"
    /\ FetchReturn(MainThread)
    /\ LET record == Returned(frames[MainThread])
           p == config[1].pagination[1]
       IN  IF ~TruthyHtml(record.html)
               THEN /\ pc' = "discover_return"
                    /\ UNCHANGED disc
           ELSE LET urls == Append(disc.urls, disc.current_url)
                    next_url == IF args.dry_run THEN None
                                ELSE NextUrl(p, disc.current_url, record.html[1], urls)
                IN  /\ disc' = [disc EXCEPT
                            !.urls = urls,
                            !.cache = DictSet(@, disc.current_url, record.html[1]),
                            !.pages = @ + 1,
                            !.current_url = IF next_url = None THEN @ ELSE next_url[1]]
                    /\ pc' = IF next_url = None THEN "discover_return" ELSE "discover_while"
    /\ UNCHANGED <<inputVars, retryVars, cleaner, config, error, urls_to_fetch,
                   html_cache, seq_i, pages, parse_i, raw_records, products, sink, records,
                   failed_urls, fa, calls>>

\* _discover_link_pagination returns; _build_url_plan, lines 128-129
DiscoverReturn ==
    /\ pc = "discover_return"
    /\ disc' = [disc EXCEPT !.all_urls = @ \o disc.urls, !.i = @ + 1]
    /\ html_cache' = MergeCache(html_cache, disc.cache)
    /\ pc' = "discover"
    /\ UNCHANGED <<inputVars, retryVars, cleaner, config, error, urls_to_fetch, seq_i,
                   pages, parse_i, raw_records, products, sink, records, failed_urls,
                   frames, fa, calls>>

\* run, lines 161-171: the concurrent branch calls fetch_all, the other one loops
Dispatch ==
    /\ pc = "dispatch"
    /\ IF Concurrent(config[1], html_cache, args.dry_run, urls_to_fetch)
        THEN /\ fa' = FetchAllEntry(urls_to_fetch, config[1].max_workers)
             /\ pc' = "fetch_all"
             /\ UNCHANGED seq_i
        ELSE /\ seq_i' = 1
             /\ pc' = "loop"
             /\ UNCHANGED fa
    /\ UNCHANGED <<inputVars, retryVars, cleaner, config, error, disc, urls_to_fetch,
                   html_cache, pages, parse_i, raw_records, products, sink, records,
                   failed_urls, frames, calls>>

\* run, lines 168-169: fetch_all returned
FetchAllReturn ==
    /\ pc = "fetch_all"
    /\ FetchAllDone
    /\ pages' = PagesOf(fa.results)
    /\ fa' = [fa EXCEPT !.mode = "returned"]
    /\ parse_i' = 1
    /\ pc' = "parse"
    /\ UNCHANGED <<inputVars, retryVars, cleaner, config, error, disc, urls_to_fetch,
                   html_cache, seq_i, raw_records, products, sink, records, failed_urls,
                   frames, calls>>

\* run, lines 171-179: one round of the loop up to the fetch, or all of it for a
\* cached URL
LoopNext ==
    /\ pc = "loop"
    /\ IF seq_i > Len(urls_to_fetch)
        THEN /\ pc' = "parse"
             /\ parse_i' = 1
             /\ UNCHANGED <<seq_i, pages, frames, calls>>
        ELSE LET url == urls_to_fetch[seq_i]
                 cached_html == DictGet(html_cache, url)
             IN  IF cached_html = None
                     THEN /\ FetchCall(MainThread, url)
                          /\ pc' = "loop_fetch"
                          /\ UNCHANGED <<seq_i, pages, parse_i>>
                     ELSE /\ pages' = AddPage(pages, url, cached_html)
                          /\ seq_i' = seq_i + 1
                          /\ pc' = IF args.dry_run THEN "parse" ELSE "loop"
                          /\ parse_i' = IF args.dry_run THEN 1 ELSE parse_i
                          /\ UNCHANGED <<frames, calls>>
    /\ UNCHANGED <<inputVars, retryVars, cleaner, config, error, disc, urls_to_fetch,
                   html_cache, raw_records, products, sink, records, failed_urls, fa>>

\* the loop, had a failed fetch ended it
LoopFetchedStopOnFailure ==
    /\ pc = "loop_fetch"
    /\ FetchReturn(MainThread)
    /\ pages' = AddPage(pages, urls_to_fetch[seq_i], Returned(frames[MainThread]).html)
    /\ seq_i' = seq_i + 1
    /\ pc' = IF args.dry_run \/ Returned(frames[MainThread]).html = None
             THEN "parse" ELSE "loop"
    /\ parse_i' = IF args.dry_run \/ Returned(frames[MainThread]).html = None
                  THEN 1 ELSE parse_i
    /\ UNCHANGED <<inputVars, retryVars, cleaner, config, error, disc, urls_to_fetch,
                   html_cache, raw_records, products, sink, records, failed_urls, fa,
                   calls>>

\* run, lines 173-179: the rest of the round after fetch returned
LoopFetched ==
    /\ pc = "loop_fetch"
    /\ FetchReturn(MainThread)
    /\ pages' = AddPage(pages, urls_to_fetch[seq_i], Returned(frames[MainThread]).html)
    /\ seq_i' = seq_i + 1
    /\ pc' = IF args.dry_run THEN "parse" ELSE "loop"
    /\ parse_i' = IF args.dry_run THEN 1 ELSE parse_i
    /\ UNCHANGED <<inputVars, retryVars, cleaner, config, error, disc, urls_to_fetch,
                   html_cache, raw_records, products, sink, records, failed_urls, fa,
                   calls>>

\* run, lines 181-193: one page parsed, its records accumulated and capped
ParsePage ==
    /\ pc = "parse"
    /\ IF parse_i > Len(pages)
        THEN /\ pc' = "parsed"
             /\ UNCHANGED <<parse_i, raw_records>>
        ELSE LET page == pages[parse_i]
                 capped == ApplyCaps(raw_records \o Parse(page.html, page.url),
                                     config[1].max_products, args.max_products)
             IN  /\ raw_records' = capped.records
                 /\ parse_i' = parse_i + 1
                 /\ pc' = IF capped.brk THEN "parsed" ELSE "parse"
    /\ UNCHANGED <<inputVars, retryVars, cleaner, config, error, disc, urls_to_fetch,
                   html_cache, seq_i, pages, products, sink, records, failed_urls, frames,
                   fa, calls>>

\* run, had the dry run gone on to clean the batch
CleanIgnoresDryRun ==
    /\ pc = "parsed"
    /\ products' = Some(CleanProducts(raw_records))
    /\ pc' = "export"
    /\ UNCHANGED <<inputVars, retryVars, cleaner, config, error, disc, urls_to_fetch,
                   html_cache, seq_i, pages, parse_i, raw_records, sink, records,
                   failed_urls, frames, fa, calls>>

\* run, had it given up on a batch without records
CleanAbortsOnEmpty ==
    /\ pc = "parsed"
    /\ IF args.dry_run
        THEN /\ pc' = "exit_0"
             /\ UNCHANGED products
        ELSE IF raw_records = <<>>
            THEN /\ pc' = "exit_1"
                 /\ UNCHANGED products
        ELSE /\ products' = Some(CleanProducts(raw_records))
             /\ pc' = "export"
    /\ UNCHANGED <<inputVars, retryVars, cleaner, config, error, disc, urls_to_fetch,
                   html_cache, seq_i, pages, parse_i, raw_records, sink, records,
                   failed_urls, frames, fa, calls>>

\* run, lines 195-201: the dry run returns, any other run cleans the batch
Clean ==
    /\ pc = "parsed"
    /\ IF args.dry_run
        THEN /\ pc' = "exit_0"
             /\ UNCHANGED products
        ELSE /\ products' = Some(CleanProducts(raw_records))
             /\ pc' = "export"
    /\ UNCHANGED <<inputVars, retryVars, cleaner, config, error, disc, urls_to_fetch,
                   html_cache, seq_i, pages, parse_i, raw_records, sink, records,
                   failed_urls, frames, fa, calls>>

\* run, had it exported the raw records
ExportRawRecords ==
    /\ pc = "export"
    /\ sink' = Append(sink, [to |-> "export", batch |-> raw_records])
    /\ pc' = "latest"
    /\ UNCHANGED <<inputVars, retryVars, cleaner, config, error, disc, urls_to_fetch,
                   html_cache, seq_i, pages, parse_i, raw_records, products, records,
                   failed_urls, frames, fa, calls>>

\* run, line 205
ExportDataframe ==
    /\ pc = "export"
    /\ sink' = Append(sink, [to |-> "export", batch |-> products[1]])
    /\ pc' = "latest"
    /\ UNCHANGED <<inputVars, retryVars, cleaner, config, error, disc, urls_to_fetch,
                   html_cache, seq_i, pages, parse_i, raw_records, products, records,
                   failed_urls, frames, fa, calls>>

\* run, lines 206-213
WriteLatestJson ==
    /\ pc = "latest"
    /\ sink' = Append(sink, [to |-> "latest", batch |-> products[1]])
    /\ pc' = "exit_0"
    /\ UNCHANGED <<inputVars, retryVars, cleaner, config, error, disc, urls_to_fetch,
                   html_cache, seq_i, pages, parse_i, raw_records, products, records,
                   failed_urls, frames, fa, calls>>

\* --------------------------------------------------------- cleaner.py
\*
\* Text is a TLA+ string.  The text of these runs holds no non-breaking space,
\* so that the replace of _normalise_text (line 38) leaves it as it is.

\* s[i]
Char(s, i) == SubSeq(s, i, i)

\* s[1:]
Rest(s) == SubSeq(s, 2, Len(s))

\* c.lower() for a character
LowerChar(c) ==
    LET upper == "ABCDEFGHIJKLMNOPQRSTUVWXYZ"
        lower == "abcdefghijklmnopqrstuvwxyz"
    IN  IF \E i \in 1..Len(upper) : Char(upper, i) = c
            THEN Char(lower, CHOOSE i \in 1..Len(upper) : Char(upper, i) = c)
            ELSE c

\* str.lower
RECURSIVE Lower(_)
Lower(s) == IF s = "" THEN "" ELSE LowerChar(Char(s, 1)) \o Lower(Rest(s))

\* the characters \s matches and str.strip removes
IsSpace(c) == c \in {" ", "\t", "\n"}

\* str.strip
Strip(s) ==
    LET keep == {i \in 1..Len(s) : ~IsSpace(Char(s, i))}
    IN  IF keep = {} THEN ""
        ELSE SubSeq(s, CHOOSE i \in keep : \A j \in keep : i <= j,
                       CHOOSE i \in keep : \A j \in keep : i >= j)

\* `k in t` on strings
Contains(t, k) == \E i \in 1..(Len(t) - Len(k) + 1) : SubSeq(t, i, i + Len(k) - 1) = k

\* re.sub(r"\s+", " ", s)
RECURSIVE Compress(_)
Compress(s) ==
    IF s = "" THEN ""
    ELSE IF IsSpace(Char(s, 1))
        THEN IF Len(s) >= 2 /\ IsSpace(Char(s, 2)) THEN Compress(Rest(s))
             ELSE " " \o Compress(Rest(s))
    ELSE Char(s, 1) \o Compress(Rest(s))

\* _normalise_text on a string
NormaliseText(s) == Strip(Compress(s))

\* str.replace(c, "") for a character c
RECURSIVE Without(_, _)
Without(s, c) ==
    IF s = "" THEN ""
    ELSE IF Char(s, 1) = c THEN Without(Rest(s), c)
    ELSE Char(s, 1) \o Without(Rest(s), c)

\* separator.join(parts)
RECURSIVE Join(_, _)
Join(sep, parts) ==
    IF parts = <<>> THEN ""
    ELSE IF Len(parts) = 1 THEN parts[1]
    ELSE parts[1] \o sep \o Join(sep, Tail(parts))

\* the characters \d matches
IsDigit(c) == c \in {"0", "1", "2", "3", "4", "5", "6", "7", "8", "9"}

\* int(s) for a string of digits
RECURSIVE IntOf(_)
IntOf(s) ==
    IF s = "" THEN 0
    ELSE LET digits == "0123456789"
             last == Char(s, Len(s))
         IN  IntOf(SubSeq(s, 1, Len(s) - 1)) * 10
                 + (CHOOSE i \in 1..Len(digits) : Char(digits, i) = last) - 1

RECURSIVE Pow10(_)
Pow10(n) == IF n = 0 THEN 1 ELSE 10 * Pow10(n - 1)

\* how many characters of s, from position i on, are digits (\d+, greedy)
RECURSIVE DigitRun(_, _)
DigitRun(s, i) == IF i <= Len(s) /\ IsDigit(Char(s, i)) THEN 1 + DigitRun(s, i + 1) ELSE 0

\* the same for [\d,]*
RECURSIVE DigitCommaRun(_, _)
DigitCommaRun(s, i) ==
    IF i <= Len(s) /\ (IsDigit(Char(s, i)) \/ Char(s, i) = ",")
        THEN 1 + DigitCommaRun(s, i + 1)
        ELSE 0

\* the length of what (?:\.\d+)? matches at position j of s
FractionRun(s, j) ==
    IF j <= Len(s) /\ Char(s, j) = "." /\ DigitRun(s, j + 1) > 0
        THEN 1 + DigitRun(s, j + 1)
        ELSE 0

\* a float is the exact fraction num / den of its decimal text
Float(sign, digits, fraction) ==
    [num |-> sign * IntOf(digits \o fraction), den |-> Pow10(Len(fraction))]

\* a Python dict is the sequence of its items, in insertion order
Item(k, v) == [key |-> k, value |-> v]

\* {**d, **e}: the keys of d keep their place and take the value e gives them,
\* the new keys of e follow in the order of e
Merge(d, e) ==
    [i \in DOMAIN d |->
        IF \E j \in DOMAIN e : e[j].key = d[i].key
            THEN e[CHOOSE j \in DOMAIN e : e[j].key = d[i].key]
            ELSE d[i]]
        \o SelectSeq(e, LAMBDA it : \A i \in DOMAIN d : d[i].key # it.key)

\* lines 17-24
DEFAULT_AVAILABILITY_MAP ==
    <<Item("in stock", "in_stock"), Item("available", "in_stock"),
      Item("out of stock", "out_of_stock"), Item("out-of-stock", "out_of_stock"),
      Item("pre-order", "preorder"), Item("preorder", "preorder")>>

\* lines 26-33
DEFAULT_RATING_WORD_MAP ==
    <<Item("zero", 0), Item("one", 1), Item("two", 2), Item("three", 3), Item("four", 4),
      Item("five", 5)>>

\* the least member of a non-empty set of positions
First(S) == CHOOSE i \in S : \A j \in S : i <= j

\* the positions of text where the number of _clean_rating and of
\* _clean_review_count can start (\d)
DigitStarts(text) == {i \in 1..Len(text) : IsDigit(Char(text, i))}

\* _clean_price, lines 42-56, on None or a string; starts are the positions of
\* text where the number can start ([-+]?\d)
CleanPrice(value) ==
    IF value = None THEN None
    ELSE LET text == NormaliseText(value[1])
             starts ==
                 {i \in 1..Len(text) :
                     \/ IsDigit(Char(text, i))
                     \/ /\ Char(text, i) \in {"-", "+"}
                        /\ i < Len(text)
                        /\ IsDigit(Char(text, i + 1))}
         IN  IF starts = {} THEN None
             ELSE LET i == First(starts)
                      d == IF IsDigit(Char(text, i)) THEN i ELSE i + 1
                      n == 1 + DigitCommaRun(text, d + 1)
                      f == FractionRun(text, d + n)
                  IN  Some(Float(IF Char(text, i) = "-" THEN 0 - 1 ELSE 1,
                                 Without(SubSeq(text, d, d + n - 1), ","),
                                 SubSeq(text, d + n + 1, d + n + f - 1)))

\* _clean_review_count, lines 59-64
CleanReviewCount(value) ==
    IF value = None THEN None
    ELSE LET text == Without(NormaliseText(value[1]), ",")
         IN  IF DigitStarts(text) = {} THEN None
             ELSE LET i == First(DigitStarts(text))
                  IN  Some(IntOf(SubSeq(text, i, i + DigitRun(text, i) - 1)))

\* a raw rating is a string or a list of strings and Nones
RatingText(s) == [list |-> FALSE, text |-> s, items |-> <<>>]

RatingList(items) == [list |-> TRUE, text |-> "", items |-> items]

\* str(value) for a list: the repr of its entries, none with a quote in it
StrOfList(items) ==
    LET repr(e) == IF e = None THEN "None" ELSE "'" \o e[1] \o "'"
    IN  "[" \o Join(", ", [i \in DOMAIN items |-> repr(items[i])]) \o "]"

\* _clean_rating, lines 67-84
CleanRating(value, rating_map) ==
    IF value = None THEN None
    ELSE LET v == value[1]
             entries == IF v.list
                        THEN {i \in DOMAIN v.items :
                                /\ v.items[i] # None
                                /\ \E k \in DOMAIN rating_map :
                                       rating_map[k].key = Lower(v.items[i][1])}
                        ELSE {}
             text == NormaliseText(IF v.list THEN StrOfList(v.items) ELSE v.text)
             words == {k \in DOMAIN rating_map : Contains(Lower(text), rating_map[k].key)}
         IN  IF entries # {}
                 THEN LET entry == Lower(v.items[First(entries)][1])
                          k == CHOOSE j \in DOMAIN rating_map : rating_map[j].key = entry
                      IN  Some([num |-> rating_map[k].value, den |-> 1])
             ELSE IF DigitStarts(text) # {}
                 THEN LET i == First(DigitStarts(text))
                          n == DigitRun(text, i)
                          f == FractionRun(text, i + n)
                      IN  Some(Float(1, SubSeq(text, i, i + n - 1),
                                     SubSeq(text, i + n + 1, i + n + f - 1)))
             ELSE IF words # {} THEN Some([num |-> rating_map[First(words)].value, den |-> 1])
             ELSE None

\* _standardise_availability, lines 87-97
StandardiseAvailability(value, availability_map) ==
    IF value = None THEN None
    ELSE LET lower == Lower(NormaliseText(value[1]))
             hits == {i \in DOMAIN availability_map : Contains(lower, availability_map[i].key)}
         IN  IF hits # {} THEN Some(availability_map[First(hits)].value)
             ELSE IF lower # "" THEN Some("unknown")
             ELSE None

\* the string hashed, had it been the first non-empty one of product_url and
\* source_url
IdentityStringShortcut(title, category, product_url, source_url) ==
    IF TruthyStr(product_url) THEN Lower(Strip(product_url[1]))
    ELSE IF TruthyStr(source_url) THEN Lower(Strip(source_url[1]))
    ELSE "unknown"

\* _stable_product_id, lines 102-105: the string that is hashed
IdentityString(title, category, product_url, source_url) ==
    LET parts == <<product_url, source_url, title, category>>
        kept == SelectSeq(parts, LAMBDA part : TruthyStr(part))
        base == Join("|", [i \in DOMAIN kept |-> Lower(Strip(kept[i][1]))])
    IN  IF base = "" THEN "unknown" ELSE base

\* _stable_product_id, lines 100-106.  hashlib.sha1(base).hexdigest()[:12] is
\* not computed: the digest is a tag of the string hashed, so that equal
\* strings have equal digests
StableProductId(title, category, product_url, source_url) ==
    "sha1:" \o IdentityString(title, category, product_url, source_url)

\* Python `a or b` on Optional[str] values
OrStr(a, b) == IF TruthyStr(a) THEN a ELSE b

\* a raw record, as Parser.parse builds it, whose every key holds None: the
\* keys are the ones clean_products reads
EmptyRecord ==
    [k \in {"title", "name", "category", "genre", "type", "category_name", "product_url",
            "url", "source_url", "price_current", "price_original", "availability",
            "image_url", "currency", "review_count", "description", "rating"} |-> None]

\* CleaningConfig
CleaningConfig(rating_words, availability_map) ==
    [rating_words |-> rating_words, availability_map |-> availability_map]

\* clean_products, lines 128-130: the title, the category and the product URL
\* of a raw record
TitleOf(record) == OrStr(record.title, record.name)

CategoryOf(record) ==
    OrStr(OrStr(OrStr(record.category, record.genre), record.type), record.category_name)

ProductUrlOf(record) == OrStr(record.product_url, record.url)

\* clean_products, lines 131-148: the Product of one raw record
Product(record, currency, rating_map, availability_map, now_iso) ==
    [id |-> StableProductId(TitleOf(record), CategoryOf(record), ProductUrlOf(record),
                            record.source_url),
     title |-> TitleOf(record),
     name |-> OrStr(record.name, TitleOf(record)),
     url |-> record.url,
     product_url |-> ProductUrlOf(record),
     price_current |-> CleanPrice(record.price_current),
     price_original |-> CleanPrice(record.price_original),
     rating |-> CleanRating(record.rating, rating_map),
     availability |-> StandardiseAvailability(record.availability, availability_map),
     image_url |-> record.image_url,
     source_url |-> record.source_url,
     category |-> OrStr(CategoryOf(record), Some("unknown")),
     currency |-> OrStr(record.currency, currency),
     review_count |-> CleanReviewCount(record.review_count),
     scraped_at |-> now_iso,
     description |-> record.description]

\* clean_products, lines 117-149: the list of Products; now_iso is the clock
\* reading of line 125
clean_products(batch, currency, cleaning, now_iso) ==
    IF batch = <<>> THEN <<>>
    ELSE LET rating_map ==
                 Merge(DEFAULT_RATING_WORD_MAP,
                       IF cleaning # None THEN cleaning[1].rating_words ELSE <<>>)
             availability_map ==
                 Merge(DEFAULT_AVAILABILITY_MAP,
                       IF cleaning # None THEN cleaning[1].availability_map ELSE <<>>)
         IN  [i \in DOMAIN batch |->
                 Product(batch[i], currency, rating_map, availability_map, now_iso)]

\* ---- a caller of clean_products: it has batches of raw records cleaned, one
\* call per batch, each call at its own clock reading

CleanerReady(cleaning, batches) ==
    [pc |-> "ready", cleaning |-> cleaning, batches |-> batches, out |-> <<>>]

CleanerCall ==
    /\ cleaner.pc = "ready"
    /\ Len(cleaner.out) < Len(cleaner.batches)
    /\ LET k == Len(cleaner.out) + 1
       IN  cleaner' = [cleaner EXCEPT
               !.out = Append(@, clean_products(cleaner.batches[k], None, cleaner.cleaning, k))]
    /\ UNCHANGED <<inputVars, retryVars, pc, config, error, runVars, records, failed_urls,
                   frames, calls, fa>>

\* ---- the batches cleaned

\* the record r with other values in the fields that are not part of its identity
Others(r) ==
    [r EXCEPT !.price_current = Some("$5.50"), !.rating = Some(RatingText("Three")),
              !.availability = Some("Out of stock"), !.description = Some("d")]

\* two records, cleaned in one batch or in two.  A title holds nothing, a blank
\* string, a value in two spellings or a value with the separator in it; the
\* name, which stands in for a missing title, holds nothing or the empty string
IdentityInputs ==
    LET idRecords ==
            {[EmptyRecord EXCEPT !.title = t, !.name = n, !.category = c, !.product_url = u,
                                 !.source_url = Some("s")] :
                t \in {None, Some(" "), Some("a"), Some(" A"), Some("a|a")},
                n \in {None, Some("")},
                c \in {None, Some(" "), Some("a"), Some("a|a")},
                u \in {None, Some("a")}}
    IN  {CleanerReady(None, <<<<r1, Others(r2)>>>>) : r1 \in idRecords, r2 \in idRecords}
            \cup {CleanerReady(None, <<<<r1>>, <<Others(r2)>>>>) :
                    r1 \in idRecords, r2 \in idRecords}

\* raw ratings (numeric text, word text, token lists) under the default rating
\* words and under cleaning.rating_words with values in 0..5
RatingInputs ==
    LET ratings ==
            {None}
                \cup {Some(RatingText(t)) :
                        t \in {"", "Five", "three stars", "4.5", "4 out of 5", "10", "3.75/5",
                               "star-rating Three", "no rating", "Great", "0", "80%"}}
                \cup {Some(RatingList(l)) :
                        l \in {<<>>, <<Some("star-rating"), Some("Three")>>,
                               <<None, Some("FIVE")>>, <<Some("rating-10")>>, <<Some("poor")>>}}
        rating_words ==
            {<<>>, <<Item("three", 3), Item("five", 5)>>,
             <<Item("great", 5), Item("poor", 1)>>, <<Item("five", 4)>>}
    IN  {CleanerReady(None, <<<<[EmptyRecord EXCEPT !.rating = v]>>>>) : v \in ratings}
            \cup {CleanerReady(Some(CleaningConfig(w, <<>>)),
                               <<<<[EmptyRecord EXCEPT !.rating = v]>>>>) :
                    v \in ratings, w \in rating_words}

\* raw availability texts under the default map and under
\* cleaning.availability_map with new keys and with keys of the defaults
AvailabilityInputs ==
    LET availabilities ==
            {None}
                \cup {Some(t) :
                        t \in {"", "In stock", "Out of stock", " in  stock ", "Sold out",
                               "Available soon, currently sold out", "Pre-order now",
                               "Ships in 3 days", "In stock (sold out online)",
                               "Discontinued"}}
        availability_maps ==
            {<<>>, <<Item("sold out", "out_of_stock")>>, <<Item("in stock", "available_now")>>,
             <<Item("out of stock", "out_of_stock"), Item("in stock", "in_stock")>>,
             <<Item("ships", "backorder"), Item("sold", "out_of_stock")>>}
    IN  {CleanerReady(None, <<<<[EmptyRecord EXCEPT !.availability = v]>>>>) :
            v \in availabilities}
            \cup {CleanerReady(Some(CleaningConfig(<<>>, m)),
                               <<<<[EmptyRecord EXCEPT !.availability = v]>>>>) :
                    v \in availabilities, m \in availability_maps}

\* test_clean_products_creates_products_and_dataframe
TestCleanerInput ==
    CleanerReady(
        Some(CleaningConfig(<<Item("five", 5), Item("three", 3)>>,
                            <<Item("out of stock", "out_of_stock"), Item("in stock", "in_stock")>>)),
        <<<<[EmptyRecord EXCEPT !.name = Some("Book 1"), !.price_current = Some("$10.00"),
                                !.rating = Some(RatingText("Five")),
                                !.availability = Some("In stock")],
            [EmptyRecord EXCEPT !.name = Some("Book 2"), !.price_current = Some("$5.50"),
                                !.rating = Some(RatingText("Three")),
                                !.availability = Some("Out of stock")]>>>>)

InitCleaner ==
    \E c \in IdentityInputs \cup RatingInputs \cup AvailabilityInputs \cup {TestCleanerInput} :
        InitHarness(DefaultMaxWorkers, {}, DefaultSettings, c)

NextCleaner == CleanerCall

SpecCleaner == InitCleaner /\ [][NextCleaner]_vars

\* ------------------------------------------------------ the runs checked

Caps == {None} \cup {Some(c) : c \in 1..MaxCap}

StartUrlLists == UrlLists(MaxStartUrls) \ {<<>>}

Workers == 1..MaxWorkers

Indexes == {None} \cup {Some(i) : i \in (0 - 1)..MaxIdx}

Template == <<"a", "{}">>

Raw(present, urls, pagination, cap, workers) ==
    [present |-> present, start_urls |-> urls, pagination |-> pagination,
     max_products |-> cap, max_workers |-> workers]

Args(dry_run, cap) == [dry_run |-> dry_run, max_products |-> cap]

Input(r, a, s) == [raw |-> r, args |-> a, site |-> s]

\* the key sets a config file can hold: a key of parsing needs parsing
KeySets ==
    {K \in SUBSET RequiredKeys :
        ("parsing" \notin K) =>
            (K \cap {"parsing.product_container", "parsing.fields"} = {})}

NoPagination == RawPagination(None, None, None, None, None, None)

LinkPagination(mp) == RawPagination(Some("link"), Some("li.next a"), mp, None, None, None)

\* a required key is missing, or start_urls is empty
InvalidInputs ==
    {Input(Raw(K, IF "start_urls" \in K THEN us ELSE <<>>, pg, None, DefaultMaxWorkers),
           Args(FALSE, None), FlakySite({Doc(None, 1)})) :
        K \in KeySets, us \in {<<>>, <<<<"a", "1">>>>}, pg \in {None, Some(LinkPagination(None))}}
    \ {Input(Raw(RequiredKeys, us, pg, None, DefaultMaxWorkers),
             Args(FALSE, None), FlakySite({Doc(None, 1)})) :
        us \in {<<<<"a", "1">>>>}, pg \in {None, Some(LinkPagination(None))}}

\* no pagination section, or one without a mode, on a flaky site
StaticInputs ==
    {Input(Raw(RequiredKeys, us, None, None, w), Args(dry, None), FlakySite({Doc(None, 1)})) :
        us \in StartUrlLists, w \in Workers, dry \in BOOLEAN}
    \cup
    {Input(Raw(RequiredKeys, us, Some(pg), None, DefaultMaxWorkers),
           Args(FALSE, None), FlakySite({Doc(None, 1)})) :
        us \in StartUrlLists,
        pg \in {NoPagination, RawPagination(Some(""), None, None, None, None, None)}}

\* the pages of the runs that exercise the caps: one per start URL
CapUrls == [k \in 1..MaxStartUrls |-> <<"a", ToString(k)>>]

\* every combination of the caps, on pages of every size
CapInputs ==
    {Input(Raw(RequiredKeys, CapUrls, None, cap, w), Args(FALSE, cli), SteadySite(PlainDocs)) :
        cap \in Caps, cli \in Caps, w \in Workers}

\* format mode, with and without a template, and the modes _build_url_plan rejects
FormatInputs ==
    {Input(Raw(RequiredKeys, <<<<"a", "1">>>>,
               Some(RawPagination(Some(mode), None, None, tpl, st, en)), None, w),
           Args(dry, None), {Response(503, EmptyBody), Response(StatusOk, Doc(None, 1))}) :
        mode \in {"format", "none", "scroll"}, tpl \in {None, Some(Template)},
        st \in Indexes, en \in Indexes, w \in Workers, dry \in BOOLEAN}

\* the start_urls of the link mode runs: one start, two starts, the same start twice
LinkStartLists ==
    {<<<<"a", "1">>>>, <<<<"a", "1">>, <<"a", "2">>>>, <<<<"a", "2">>, <<"a", "2">>>>}

\* link mode
LinkInputs ==
    {Input(Raw(RequiredKeys, us, Some(LinkPagination(mp)), None, w),
           Args(dry, None), FlakySite({Doc(h, 1) : h \in Hrefs}) \ {Raised("ConnectionError")}) :
        us \in LinkStartLists, mp \in {None} \cup {Some(m) : m \in 0..MaxPagesCfg},
        w \in Workers, dry \in BOOLEAN}

Inputs == InvalidInputs \cup StaticInputs \cup CapInputs \cup FormatInputs \cup LinkInputs

Init ==
    /\ \E in \in Inputs :
        /\ raw = in.raw
        /\ args = in.args
        /\ site = in.site
    /\ pc = "start"
    /\ config = None
    /\ error = None
    /\ RunIdle
    /\ FetcherIdle
    /\ settings = DefaultSettings
    /\ adapter = NoRetry
    /\ cleaner = NoCleaner

Next ==
    \/ LoadConfig
    \/ BuildUrlPlan
    \/ DiscoverNext
    \/ DiscoverWhile
    \/ DiscoverPage
    \/ DiscoverReturn
    \/ Dispatch
    \/ FetchAllReturn
    \/ LoopNext
    \/ LoopFetched
    \/ ParsePage
    \/ Clean
    \/ ExportDataframe
    \/ WriteLatestJson
    \/ FetchStep
    \/ PoolStep

Spec == Init /\ [][Next]_vars

\* ------------------------------------------------------------- claims

Count(s, x) == Cardinality({i \in DOMAIN s : s[i] = x})

SameBag(s, t) == \A x \in Range(s) \cup Range(t) : Count(s, x) = Count(t, x)

\* no activation of fetch is in progress
Quiescent == \A t \in Threads : frames[t].pc = "idle"

\* _build_url_plan has returned
Planned ==
    pc \in {"dispatch", "fetch_all", "loop", "loop_fetch", "parse", "parsed", "export",
            "latest", "exit_0"}

\* the fetching of the plan is over
Fetched == pc \in {"parse", "parsed", "export", "latest", "exit_0"}

Ended == pc \in {"exit_0", "exit_1", "raised"}

FailedRecords == {i \in DOMAIN records : records[i].error # None}

\* C1: when page iteration has ended, the accumulated raw records number at
\* most the config cap, if set, and at most the CLI cap, if set.
C1_BothCapsHold ==
    pc = "parsed" =>
        /\ config[1].max_products # None => Len(raw_records) <= config[1].max_products[1]
        /\ args.max_products # None => Len(raw_records) <= args.max_products[1]

\* a FetchRecord is a success (html and status code present, no error) or a
\* failure (html and status code absent, an error message)
WellFormed(rec) ==
    \/ rec.html # None /\ rec.status_code # None /\ rec.error = None
    \/ rec.html = None /\ rec.status_code = None /\ rec.error # None

\* C2: every call of fetch(url) ends with a return, never with an exception,
\* and returns one FetchRecord for its URL, the one it logged; every record is
\* wholly a success or wholly a failure.
C2_FetchReturnsOneRecord ==
    /\ \A i \in DOMAIN records : WellFormed(records[i]) /\ records[i].url = calls[i]
    /\ \A t \in Threads :
        /\ frames[t].pc \in {"append", "ret"} => frames[t].exc = None
        /\ frames[t].pc = "ret" =>
            /\ Len(records) = Len(calls)
            /\ records[Len(records)] = Returned(frames[t])
            /\ Returned(frames[t]).url = calls[Len(calls)]
    /\ Quiescent => Len(records) = Len(calls)

\* a call has returned a failure raised by raise_for_status, after a success
C2_Witness ==
    /\ frames[MainThread].pc = "ret"
    /\ Returned(frames[MainThread]).error = Some("HTTPError")
    /\ \E i \in DOMAIN records : records[i].html = Some(EmptyBody)
    /\ \E i \in DOMAIN records : records[i].error = Some("Timeout")

\* the activations of fetch that are past the except block with a failure
FailedInFlight == {t \in Threads : frames[t].pc = "append" /\ frames[t].error # None}

\* C3: under every interleaving of the workers, every request dispatched by
\* fetch_all contributes one entry: the record log holds one record per
\* completed call and has grown by N when fetch_all returns, the failure log
\* one entry per failed call, and the list returned one logged record per
\* dispatched URL.
C3_OneEntryPerRequest ==
    /\ Len(records) + Cardinality({t \in Threads : frames[t].pc \in {"get", "append"}})
            = Len(calls)
    /\ Quiescent => SameBag([i \in DOMAIN records |-> records[i].url], calls)
    /\ Len(failed_urls) = Cardinality(FailedRecords) + Cardinality(FailedInFlight)
    /\ \A u \in StartUrlPool :
        Count(failed_urls, u) =
            Cardinality({i \in FailedRecords : records[i].url = u})
                + Cardinality({t \in FailedInFlight : frames[t].url = u})
    /\ (fa.mode = "pool" /\ FetchAllDone) =>
        /\ Len(fa.results) = Len(fa.url_list)
        /\ Len(records) = fa.mark + Len(fa.url_list)
        /\ SameBag([i \in DOMAIN fa.results |-> fa.results[i].url], fa.url_list)
        /\ SameBag(fa.results, SubSeq(records, fa.mark + 1, Len(records)))

\* fetch_all over two workers has gathered its results in another order than
\* the input's, a failure among them
C3_Witness ==
    /\ fa.mode = "pool"
    /\ FetchAllDone
    /\ Len(fa.url_list) >= 2
    /\ fa.results[1].url # fa.url_list[1]
    /\ \E i \in DOMAIN fa.results : fa.results[i].error # None
    /\ \E i \in DOMAIN fa.results : fa.results[i].error = None

\* a run that is not dry and whose plan is static or templated
ListRun ==
    /\ config # None
    /\ ~args.dry_run
    /\ PlanBranch(config[1]) \in {"static", "format"}

\* C4: in a non-dry run over a static or templated plan no failed fetch stops
\* the run: until it exits it can take a step; when fetching is over fetch was
\* called once per planned URL, in both branches, and every page fetched
\* successfully is among the pages to parse.
C4_FailureStopsNothing ==
    ListRun =>
        /\ ~Ended => ENABLED Next
        /\ pc # "raised"
        /\ Fetched =>
            /\ calls = urls_to_fetch
            /\ Len(records) = Len(urls_to_fetch)
            /\ SameBag(pages, PagesOf(records))

\* the loop went on after a failed fetch and fetched the next URL successfully
C4_Witness ==
    /\ ListRun
    /\ pc = "exit_0"
    /\ fa.mode = "off"
    /\ Len(records) >= 2
    /\ records[1].error # None
    /\ TruthyHtml(records[2].html)
    /\ Len(pages) = 1

\* C5 as stated: failures counts the distinct URLs that failed
C5_DistinctFailedUrls ==
    Quiescent => summary.failures = Cardinality({records[i].url : i \in FailedRecords})

\* C5 as amended: failures counts the failed calls, a URL that failed in
\* several calls once per such call; successes and failures add up to the calls.
C5_FailedCalls ==
    Quiescent =>
        /\ summary.failures = Cardinality(FailedRecords)
        /\ summary.successes + summary.failures = Len(calls)

\* one URL has failed in two calls
C5_Witness ==
    /\ Quiescent
    /\ \E u \in StartUrlPool : Count(failed_urls, u) >= 2

\* the link mode is planning or has planned
LinkRun == config # None /\ PlanBranch(config[1]) = "link"

\* C6: in link mode a discovery from one start URL issues at most max_pages
\* fetches and returns at most max_pages URLs, whatever max_pages is configured
\* (0 included) and whatever the chain of next links.
C6_HardCap ==
    (LinkRun /\ pc = "discover_return") =>
        /\ disc.fetches <= config[1].pagination[1].max_pages
        /\ Len(disc.urls) <= config[1].pagination[1].max_pages

\* C7: in a link mode run every planned URL has its HTML in the returned
\* cache, and once the plan is returned the orchestrator calls neither fetch
\* nor fetch_all: the pages are those of the cache.
C7_CacheReused ==
    (LinkRun /\ Planned) =>
        /\ \A u \in Range(urls_to_fetch) :
            u \in DOMAIN html_cache /\ html_cache[u].text # ""
        /\ Quiescent
        /\ fa.mode = "off"
        /\ Len(records) = Len(calls)
        /\ \A i \in DOMAIN pages :
            pages[i] = [url |-> urls_to_fetch[i], html |-> html_cache[urls_to_fetch[i]]]
        /\ Fetched /\ ~args.dry_run => Len(pages) = Len(urls_to_fetch)

\* a link mode run over several workers has ended, its plan of two pages, one
\* fetch per page
C7_Witness ==
    /\ LinkRun
    /\ pc = "exit_0"
    /\ ~args.dry_run
    /\ config[1].max_workers > 1
    /\ Len(urls_to_fetch) >= 2
    /\ Len(calls) = Len(urls_to_fetch)

\* C8: in format mode with a template and start <= end the plan is the URLs
\* of start, start + 1, ..., end, in this order, and the cache is empty.
C8_PlanIsRange ==
    (config # None /\ Planned /\ PlanBranch(config[1]) = "format") =>
        LET p == config[1].pagination[1]
        IN  (p.start <= p.end) =>
                (/\ urls_to_fetch =
                    [k \in 1..(p.end - p.start + 1) |->
                        Format(p.url_template[1], p.start + k - 1)]
                 /\ html_cache = EmptyDict)

\* the configured pagination mode is missing or falsy
NoMode(cfg) == cfg.pagination = None \/ ~TruthyStr(cfg.pagination[1].mode)

\* what the planner returns for a static plan: start_urls, no cache, no fetch
StaticPlan ==
    /\ pc # "raised"
    /\ urls_to_fetch = config[1].start_urls
    /\ html_cache = EmptyDict
    /\ pc = "dispatch" => calls = <<>>

\* C9 as stated: with no pagination section, no mode, or the mode none, the
\* planner returns start_urls, an empty cache, and fetches nothing
C9_NoneIsStatic ==
    (config # None /\ pc # "plan") =>
        ((NoMode(config[1]) \/ config[1].pagination[1].mode = Some("none")) => StaticPlan)

\* C9 as amended: with no pagination section or no mode the planner returns
\* start_urls, an empty cache, and fetches nothing; the mode "none" is
\* rejected as unsupported, before any fetch.
C9_AbsentIsStatic ==
    (config # None /\ pc # "plan") =>
        /\ NoMode(config[1]) => StaticPlan
        /\ (~NoMode(config[1]) /\ config[1].pagination[1].mode = Some("none")) =>
            /\ pc = "raised"
            /\ error = Some("Unsupported pagination mode")
            /\ calls = <<>>

\* the planner returned start_urls for a pagination section without a mode
C9_Witness ==
    /\ pc = "dispatch"
    /\ config[1].pagination # None
    /\ config[1].pagination[1].mode = None
    /\ Len(urls_to_fetch) = 2

\* C10: a missing required key makes load_config raise ConfigError, format
\* mode without a template and an unsupported mode make the planner raise it,
\* and whenever a ConfigError is raised no fetch has been called.
C10_NoFetchBeforeConfigError ==
    /\ error # None => (calls = <<>> /\ records = <<>> /\ pc \in {"exit_1", "raised"})
    /\ (pc # "start" /\ raw.present # RequiredKeys) =>
        (pc = "exit_1" /\ error # None
            /\ error[1] \in (RequiredKeys \ raw.present)
                    \cup {"start_urls must be a non-empty list"})
    /\ (config # None /\ pc # "plan"
            /\ PlanBranch(config[1]) \notin {"static", "format", "link"}) =>
        (pc = "raised" /\ error = Some(PlanBranch(config[1])))

\* load_config rejected a link mode config that lacks parsing.fields
C10_Witness ==
    /\ pc = "exit_1"
    /\ error = Some("parsing.fields")
    /\ raw.pagination # None
    /\ calls = <<>>

\* ---- the retries of session.get

\* the session.get of the last call of fetch has ended
GetEnded == adapter.attempts > 0 /\ frames[MainThread].pc # "get"

\* every attempt of the current session.get was answered with a status of the
\* configured retry_status_forcelist
AllForced ==
    /\ adapter.seen # <<>>
    /\ \A i \in DOMAIN adapter.seen : adapter.seen[i] \in settings.retry_status_forcelist

\* fetch gave up after the initial attempt and max_retries retries and logged
\* the failure
Exhausted ==
    /\ adapter.attempts = 1 + settings.max_retries
    /\ frames[MainThread].pc \in {"append", "ret"} =>
        /\ frames[MainThread].html = None
        /\ frames[MainThread].error # None
        /\ failed_urls # <<>>
        /\ failed_urls[Len(failed_urls)] = frames[MainThread].url
    /\ frames[MainThread].pc = "idle" =>
        /\ records[Len(records)].html = None
        /\ records[Len(records)].error # None
        /\ failed_urls[Len(failed_urls)] = records[Len(records)].url

\* C11 as stated: for a URL whose every response carries a status listed in
\* retry_status_forcelist, fetch makes the initial attempt and max_retries
\* retries, then returns a record without html and with an error and logs the
\* URL as failed; it never makes more than max_retries retries.
C11_ListedStatusExhausts ==
    /\ adapter.attempts <= 1 + settings.max_retries
    /\ (GetEnded /\ AllForced) => Exhausted

\* C11 as amended: the same for the listed statuses of 400 and above; a listed
\* status below 400 is retried as often, and the last response is a success.
C11_ListedErrorStatusExhausts ==
    /\ adapter.attempts <= 1 + settings.max_retries
    /\ (GetEnded /\ AllForced /\ \A i \in DOMAIN adapter.seen : adapter.seen[i] >= 400)
        => Exhausted
    /\ (GetEnded /\ AllForced) => adapter.attempts = 1 + settings.max_retries

\* the second call of fetch has returned after two retries answered 503
C11_Witness ==
    /\ frames[MainThread].pc = "ret"
    /\ Len(calls) = 2
    /\ settings.max_retries = 2
    /\ adapter.seen = <<503, 503, 503>>
    /\ Len(failed_urls) = 2

\* C12: whatever retry_status_forcelist is configured, the empty list
\* included, a response whose status is not in the list is not retried: it is
\* the last attempt of its session.get.
C12_UnlistedNotRetried ==
    \A i \in DOMAIN adapter.seen :
        (adapter.seen[i] # 0 /\ adapter.seen[i] \notin settings.retry_status_forcelist)
            => (i = Len(adapter.seen) /\ frames[MainThread].pc # "get")

\* ---- the phases of a run

\* the planner has raised no ConfigError
Valid == config # None /\ error = None

\* C13: in a dry run, whatever the pagination mode and the fetch outcomes, the
\* cleaner, the export and the latest-snapshot write are never invoked; a dry
\* run of a valid config goes on until it ends, after parsing, with exit code 0.
C13_DryRunStopsAfterParsing ==
    args.dry_run =>
        /\ products = None
        /\ sink = <<>>
        /\ pc \notin {"export", "latest"}
        /\ (Valid /\ ~Ended) => ENABLED Next
        /\ (Valid /\ Ended) => (pc = "exit_0" /\ parse_i >= 1)

\* a dry run in link mode has ended with the records of its first page
C13_Witness ==
    /\ args.dry_run
    /\ pc = "exit_0"
    /\ LinkRun
    /\ raw_records # <<>>
    /\ Len(urls_to_fetch) = 2

\* no fetch has brought a page
NoPageFetched == \A i \in DOMAIN records : ~TruthyHtml(records[i].html)

\* C14: a non-dry run of a valid config in which every fetch fails runs to its
\* end: it hands an empty batch to the export and to the latest-snapshot write
\* and exits with 0.
C14_EmptyBatchExported ==
    (~args.dry_run /\ Valid /\ NoPageFetched) =>
        /\ ~Ended => ENABLED Next
        /\ Ended =>
            /\ pc = "exit_0"
            /\ products = Some(<<>>)
            /\ sink = <<[to |-> "export", batch |-> <<>>], [to |-> "latest", batch |-> <<>>]>>

\* two fetches failed, one of them with a transport error, and the run exited
C14_Witness ==
    /\ ~args.dry_run
    /\ pc = "exit_0"
    /\ Len(records) = 2
    /\ NoPageFetched
    /\ records[1].error = Some("ConnectionError")
    /\ Len(sink) = 2

\* the elements of s are pairwise distinct
Distinct(s) == \A i, j \in DOMAIN s : s[i] = s[j] => i = j

\* the URLs the discovery in progress has fetched
DiscoveryCalls == SubSeq(calls, Len(calls) - disc.fetches + 1, Len(calls))

\* the URLs of the site under scrape
SiteUrls == {urljoin(u, s) : u \in StartUrlPool, s \in Segments}

\* C17: a discovery from one start URL never fetches a URL it has visited: the
\* URLs it fetches and the URLs it returns are pairwise distinct, so that,
\* whatever max_pages is and however the pages link to each other, it makes at
\* most one fetch per URL of the site and then returns.
C17_NoRevisit ==
    (LinkRun /\ pc \in {"discover_while", "discover_fetch", "discover_return"}) =>
        /\ Distinct(DiscoveryCalls)
        /\ Distinct(disc.urls)
        /\ Range(disc.urls) \subseteq Range(DiscoveryCalls)
        /\ disc.fetches <= Cardinality(SiteUrls)
        /\ ENABLED Next

\* a discovery that max_pages did not stop has fetched every page of a cycle
\* and returned on the link back to a page visited
C17_Witness ==
    /\ LinkRun
    /\ pc = "discover_return"
    /\ config[1].pagination[1].max_pages = DefaultMaxPages
    /\ Len(disc.urls) = Cardinality(SiteUrls)
    /\ LET last == records[Len(records)]
       IN  /\ TruthyHtml(last.html)
           /\ TruthyStr(last.html[1].next)
           /\ urljoin(last.url, last.html[1].next[1]) \in Range(disc.urls)

\* the state part of C18
C18_Phases ==
    /\ products # None => (pc \in {"export", "latest", "exit_0"} /\ ~args.dry_run)
    /\ sink # <<>> => (products # None /\ \A i \in DOMAIN sink : sink[i].batch = products[1])
    /\ pc \in {"latest", "exit_0"} /\ ~args.dry_run =>
        (Len(sink) >= 1 /\ sink[1].to = "export")
    /\ (raw_records # <<>> \/ parse_i > 1) => (Fetched /\ Quiescent)
    /\ pages # <<>> => Planned

\* the step part of C18
C18_Steps ==
    /\ (products = None /\ products' # None) => (pc = "parsed" /\ Quiescent)
    /\ products # None =>
        /\ products' = products
        /\ calls' = calls
        /\ records' = records
        /\ pages' = pages
        /\ parse_i' = parse_i
        /\ raw_records' = raw_records
    /\ Fetched => (calls' = calls /\ urls_to_fetch' = urls_to_fetch)

\* C18: in a non-dry run the phases follow each other as plan, fetch, parse,
\* clean, sink: the cleaner is invoked once, when parsing has ended, the sink
\* is handed the cleaned batch and nothing else, and once cleaning has started
\* no page is fetched or parsed.
C18_PhaseOrder == []C18_Phases /\ [][C18_Steps]_vars

\* a run whose parsing a cap ended has cleaned and exported its batch
C18_Witness ==
    /\ ~args.dry_run
    /\ pc = "exit_0"
    /\ Len(sink) = 2
    /\ products # None
    /\ Len(products[1]) = MaxCap
    /\ parse_i <= Len(pages)

\* ---- the cleaner

\* the raw records cleaned so far, as <<batch, position>>
Cleaned == UNION {{<<b, i>> : i \in DOMAIN cleaner.batches[b]} : b \in DOMAIN cleaner.out}

RawOf(x) == cleaner.batches[x[1]][x[2]]

ProductOf(x) == cleaner.out[x[1]][x[2]]

\* the availability_map of the site's cleaning section
SiteAvailabilityMap ==
    IF cleaner.cleaning = None THEN <<>> ELSE cleaner.cleaning[1].availability_map

\* the items of an availability map whose key is a substring of text
Hits(map, text) == {i \in DOMAIN map : Contains(text, map[i].key)}

\* C15: the site's availability_map is checked before the built-in defaults:
\* an input that contains a key of the site's map and a key of the defaults is
\* given the canonical value of a site key it contains.
C15_SiteOverridesFirst ==
    \A x \in Cleaned :
        RawOf(x).availability # None =>
            LET lower == Lower(NormaliseText(RawOf(x).availability[1]))
            IN  (Hits(SiteAvailabilityMap, lower) # {}
                    /\ Hits(DEFAULT_AVAILABILITY_MAP, lower) # {})
                => ProductOf(x).availability \in
                       {Some(SiteAvailabilityMap[i].value) : i \in Hits(SiteAvailabilityMap, lower)}

\* an identity field after trimming and lowercasing
Normalised(o) == IF o = None THEN None ELSE Some(Lower(Strip(o[1])))

\* the identity fields of a raw record, as clean_products hands them to
\* _stable_product_id, in the order product_url, source_url, title, category
IdentityFields(record) ==
    <<ProductUrlOf(record), record.source_url, TitleOf(record), CategoryOf(record)>>

NormalisedIdentity(record) ==
    [k \in 1..4 |-> Normalised(IdentityFields(record)[k])]

\* C16: two raw records whose product_url, source_url, title and category are
\* equal after trimming and lowercasing get the same id, whatever their other
\* fields, in the same batch or in different ones.
C16_SameIdentitySameId ==
    \A x, y \in Cleaned :
        NormalisedIdentity(RawOf(x)) = NormalisedIdentity(RawOf(y))
            => ProductOf(x).id = ProductOf(y).id

\* C19: the rating of every Product is absent or between 0 and 5, for numeric
\* text, word text and token lists, and every rating-word map with values in
\* 0..5.
C19_RatingInRange ==
    \A x \in Cleaned :
        LET r == ProductOf(x).rating
        IN  r = None \/ (0 <= r[1].num /\ r[1].num <= 5 * r[1].den)

\* an identity field that is None, empty or blank is absent
Absent(o) == o = None \/ Strip(o[1]) = ""

\* the normalized identity tuple of a raw record: absent fields are None
IdentityTuple(record) ==
    [k \in 1..4 |-> IF Absent(IdentityFields(record)[k]) THEN None
                    ELSE Normalised(IdentityFields(record)[k])]

Joined(record) == {k \in 1..4 : TruthyStr(IdentityFields(record)[k])}

\* no identity field of the record holds the separator
SeparatorFree(record) ==
    \A k \in 1..4 :
        IdentityFields(record)[k] # None => ~Contains(IdentityFields(record)[k][1], "|")

InputOrder ==
    LET done == SelectSeq(fa.fut, LAMBDA f : f.exc = None)
    IN  [i \in DOMAIN done |-> done[i].rec[1]]

\* the parse loop of run on the pages ps from page i on, rs accumulated so far
RECURSIVE Accumulate(_, _, _)
Accumulate(ps, i, rs) ==
    IF i > Len(ps) THEN rs
    ELSE LET capped == ApplyCaps(rs \o Parse(ps[i].html, ps[i].url),
                                 config[1].max_products, args.max_products)
         IN  IF capped.brk THEN capped.records ELSE Accumulate(ps, i + 1, capped.records)

\* the batch of the run, had the fetches completed in the order of the URLs
InputOrderBatch == Accumulate(PagesOf(InputOrder), 1, <<>>)

\* a run that fetched its pages with fetch_all on the pool has parsed them
ConcurrentRun == pc = "parsed" /\ fa.mode = "returned"

\* how many containers the fetched pages hold
RECURSIVE Containers(_)
Containers(ps) == IF ps = <<>> THEN 0 ELSE Head(ps).html.n + Containers(Tail(ps))

\* the pages hold no more records than a cap that is set
WithinCaps ==
    \A cap \in {config[1].max_products, args.max_products} :
        TruthyInt(cap) => Containers(pages) <= cap[1]

\* C21 as stated: the multiset of raw records handed to the cleaner by a
\* concurrent run is the one of the run whose fetches complete in the order of
\* the URLs, whatever the completion order, a cap truncating the batch or not.
C21_SameBatchAnyOrder == ConcurrentRun => SameBag(raw_records, InputOrderBatch)

\* C21 as amended: it is, when the pages hold no more records than each cap
\* that is set.
C21_SameBatchWithinCaps ==
    (ConcurrentRun /\ WithinCaps) => SameBag(raw_records, InputOrderBatch)

\* the fetches of a concurrent run under a cap completed out of order, every
\* page came with records, and the batch is the one of the input order in
\* another order
C21_Witness ==
    /\ ConcurrentRun
    /\ WithinCaps
    /\ TruthyInt(config[1].max_products) \/ TruthyInt(args.max_products)
    /\ Len(pages) >= 2
    /\ \A i \in DOMAIN pages : pages[i].html.n >= 1
    /\ raw_records # InputOrderBatch
    /\ SameBag(raw_records, InputOrderBatch)

=============================================================================
